---- MODULE Spec2Model ----
(***************************************************************************)
(* A model of the DI container of this repository: Container.register,     *)
(* Container.createChild, Container.resolve and ContainerModule.load, with *)
(* the provider table and the singleton cache of every container of a      *)
(* hierarchy, the objects the container builds, and the events of the last *)
(* resolve call.                                                           *)
(*                                                                         *)
(* The repository holds three copies of the Container class.  The variable *)
(* impl says which copy a behaviour runs:                                  *)
(*   "part_000"  the commented container (src/unnamed/part_000)            *)
(*   "di"        src/src/di.ts                                             *)
(*   "test"      src/src/test.ts                                           *)
(***************************************************************************)
EXTENDS Naturals, Sequences, FiniteSets, TLC

VARIABLES impl, parent, providers, singletons, heap, registers, resolves, returned,
          constructed, last

vars == <<impl, parent, providers, singletons, heap, registers, resolves,
         returned, constructed, last>>

(***************************************************************************)
(* Bounds of the model.                                                    *)
(***************************************************************************)
\* containers of the hierarchy (the root and its descendants)
MaxContainers == 2
\* register and load calls of one behaviour
MaxRegisters == 2
\* top-level resolve calls of one behaviour
MaxResolves == 3
\* nested resolve frames before the JavaScript call stack overflows
MaxDepth == 5

(***************************************************************************)
(* Values of the JavaScript program, all of one shape: undefined, null or  *)
(* a reference to the object heap[id].  Absent marks a Map key or an       *)
(* object field that is not there.                                         *)
(***************************************************************************)
Undefined == [t |-> "undefined", id |-> 0]
Null == [t |-> "null", id |-> 0]
Absent == [t |-> "absent", id |-> 0]
Ref(i) == [t |-> "object", id |-> i]

Impls == {"part_000", "di", "test"}

\* Scope.Singleton and Scope.Transient; NoScope is a provider without scope
Singleton == "Singleton"
Transient == "Transient"
NoScope == ""

(***************************************************************************)
(* Tokens.  TA is a class used as its own token (the class is named "A"),  *)
(* TB is Symbol("B"), TC and TD are the strings "C" and "D".  NoToken is a  *)
(* missing (undefined or empty) token, which JavaScript finds falsy.       *)
(***************************************************************************)
TA == "class A"
TB == "Symbol(B)"
TC == "C"
TD == "D"
Tokens == {TA, TB, TC, TD}
\* the tokens the client program asks resolve for; TD is only a dependency
Requested == {TA, TB, TC}
NoToken == ""
TokenType(t) == CASE t = TA -> "function" [] t = TB -> "symbol" [] OTHER -> "string"
\* the name of a class token, the description of a symbol token
NoName == "undefined"
TokenName(t) == CASE t = TA -> "A" [] t = TB -> "B" [] OTHER -> NoName

\* tokenToString: a string is itself, a symbol its description (or its
\* toString()), a class its name (or a placeholder)
tokenToString(t) ==
  CASE TokenType(t) = "string" -> t
    [] TokenType(t) = "symbol" ->
         IF TokenName(t) # NoName THEN TokenName(t) ELSE "Symbol()"
    [] OTHER ->
         IF TokenName(t) # NoName THEN TokenName(t)
         ELSE IF impl = "test" THEN "[AnonymousClass" ELSE "[AnonymousClass]"

(***************************************************************************)
(* The classes of the client program: the static inject array, the         *)
(* @Inject(token) property declarations and the onInit method of each      *)
(* ("none": no such method, "ok": returns, "throws": throws).              *)
(***************************************************************************)
Keys == {"dep"}
NoClass == ""
Classes ==
  [ Leaf   |-> [inject |-> <<>>,    props |-> <<>>, onInit |-> "none"],
    Svc    |-> [inject |-> <<TB>>, props |-> <<>>, onInit |-> "ok"],
    Back   |-> [inject |-> <<TA>>, props |-> <<>>, onInit |-> "none"],
    Prop   |-> [inject |-> <<>>,    props |-> <<[key |-> "dep", token |-> TB]>>,
                onInit |-> "ok"],
    Bad    |-> [inject |-> <<>>,    props |-> <<>>, onInit |-> "throws"],
    Config |-> [inject |-> <<>>,    props |-> <<>>, onInit |-> "ok"],
    Made   |-> [inject |-> <<>>,    props |-> <<>>, onInit |-> "none"],
    Top    |-> [inject |-> <<TB, TC>>, props |-> <<>>, onInit |-> "none"],
    Mid    |-> [inject |-> <<TD>>, props |-> <<>>, onInit |-> "none"] ]

\* an object: its constructor, the constructor arguments, the fields set by
\* property injection, and how many times its onInit has been invoked
NewObject(cls, args) ==
  [cls |-> cls, args |-> args, fields |-> [key \in Keys |-> Absent], inits |-> 0]

\* the object a value provider or a factory of the client program holds
SharedId == 1
InitialHeap == <<NewObject("Config", <<>>)>>

(***************************************************************************)
(* Factories of the client program: "mk" builds a new object on each call, *)
(* "shared" returns the one object it closes over.                         *)
(***************************************************************************)
NoFactory == ""

(***************************************************************************)
(* Providers.  A field the provider object does not carry is NoToken,      *)
(* NoClass, Undefined, NoFactory, <<>> or NoScope.                         *)
(***************************************************************************)
Provider(token, useClass, useValue, useFactory, deps, scope) ==
  [token |-> token, useClass |-> useClass, useValue |-> useValue,
   useFactory |-> useFactory, deps |-> deps, scope |-> scope]

NoProvider == Provider(NoToken, NoClass, Undefined, NoFactory, <<>>, NoScope)

ClassProvider(token, cls, scope) ==
  Provider(token, cls, Undefined, NoFactory, <<>>, scope)
ValueProvider(token, value, scope) ==
  Provider(token, NoClass, value, NoFactory, <<>>, scope)
FactoryProvider(token, fn, deps, scope) ==
  Provider(token, NoClass, Undefined, fn, deps, scope)

\* type guards
isClassProvider(p) == p.useClass # NoClass
isValueProvider(p) == p.useValue # Undefined
isFactoryProvider(p) == p.useFactory # NoFactory

(***************************************************************************)
(* The state a resolve call threads through its frames: the singleton      *)
(* caches, the heap, the events so far and the number of frames entered.   *)
(* An event is [e, f, tok, v, key]: frame f entered for tok ("enter", key  *)
(* "fresh" when its stack is empty) with tok on its stack ("on", one event *)
(* per token of the stack, in order),                                      *)
(* returned the cached v ("hit"), obtained v from instantiate ("new"),     *)
(* assigned v to field key of its instance ("set", tok the injected        *)
(* token), invoked onInit of v ("init"), stored v in the cache ("store"),  *)
(* returned v ("return") or threw ("throw", key the error).                *)
(***************************************************************************)
Event(e, f, tok, v, key) == [e |-> e, f |-> f, tok |-> tok, v |-> v, key |-> key]

Returned(st, val) == [st |-> st, ok |-> TRUE, val |-> val, err |-> "", msg |-> ""]
Thrown(st, err, msg) == [st |-> st, ok |-> FALSE, val |-> Undefined, err |-> err, msg |-> msg]

Log(st, ev) == [st EXCEPT !.log = Append(@, ev)]

\* the _stack a frame of resolve was called with
RECURSIVE LogStack(_, _, _)
LogStack(st, f, stack) ==
  IF Len(stack) = 0 THEN st
  ELSE LogStack(Log(st, Event("on", f, Head(stack), Undefined, "")), f, Tail(stack))

\* a resolve that hands its own stack on as it got it
ChildStackWithoutToken(stack, token) == stack

\* [..._stack, token]: the stack instantiate passes to the dependencies
ChildStack(stack, token) == Append(stack, token)

\* a resolve that never finds its token on the stack
IncludesNothing(stack, token) == FALSE

\* _stack.includes(token)
Includes(stack, token) == \E i \in 1..Len(stack) : stack[i] = token

\* [..._stack, token].map(tokenToString).join(" -> ")
RECURSIVE Join(_)
Join(labels) ==
  IF Len(labels) = 0 THEN ""
  ELSE IF Len(labels) = 1 THEN labels[1]
  ELSE labels[1] \o " -> " \o Join(Tail(labels))

\* a path that leaves the revisited token out
PathStringWithoutRevisit(stack, token) ==
  Join([i \in 1..Len(stack) |-> tokenToString(stack[i])])

PathString(stack, token) ==
  Join([i \in 1..(Len(stack) + 1) |-> tokenToString(Append(stack, token)[i])])

\* a cache in which resolve never finds an instance
SingletonsHasNothing(cache, token) == FALSE

\* Map.has / Map.get of a provider table or a singleton cache
ProvidersHas(k, token) == providers[k][token] # NoProvider
SingletonsHas(cache, token) == cache[token] # Absent

\* a lookup that never asks the parent
getProviderLocalOnly(k, token) == providers[k][token]

\* getProvider: the container's own table first, then the parent's lookup
RECURSIVE getProvider(_, _)
getProvider(k, token) ==
  IF ProvidersHas(k, token) THEN providers[k][token]
  ELSE IF parent[k] # 0 THEN getProvider(parent[k], token)
  ELSE NoProvider

\* a resolve that takes every provider for a Singleton
EffectiveScopeAlwaysSingleton(provider) == Singleton

\* provider.scope ?? Scope.Singleton
EffectiveScope(provider) == IF provider.scope = NoScope THEN Singleton ELSE provider.scope

\* a resolve that reads the cache under the key of another token
CacheReadKeyOfOther(provider, token) == IF token = TB THEN TA ELSE TB

\* the key the cached instance is read under: provider.token, or the
\* requested token in src/src/test.ts
CacheReadKey(provider, token) == IF impl = "test" THEN token ELSE provider.token

\* whether resolve ends with singletons.set (src/src/di.ts has no such step)
StoresSingleton(scope) == scope = Singleton /\ impl # "di"

\* new Ctor(...args) and the factories of the client program
Construct(st, cls, args) ==
  [st EXCEPT !.heap = Append(@, NewObject(cls, args))]

CallFactory(st, fn, args) ==
  IF fn = "mk"
  THEN [st |-> Construct(st, "Made", args), val |-> Ref(Len(st.heap) + 1)]
  ELSE [st |-> st, val |-> Ref(SharedId)]

\* the order in which instantiate tries the variants
VariantOrder ==
  IF impl = "test" THEN <<"class", "value", "factory">> ELSE <<"class", "factory", "value">>

Matches(variant, provider) ==
  CASE variant = "class" -> isClassProvider(provider)
    [] variant = "factory" -> isFactoryProvider(provider)
    [] OTHER -> isValueProvider(provider)

\* the first variant of VariantOrder the provider matches, "" when none
Variant(provider) ==
  IF \E i \in 1..3 : Matches(VariantOrder[i], provider)
  THEN VariantOrder[CHOOSE i \in 1..3 :
         /\ Matches(VariantOrder[i], provider)
         /\ \A j \in 1..(i - 1) : ~Matches(VariantOrder[j], provider)]
  ELSE ""

\* what instantiate does for a provider of no variant: part_000 throws,
\* the other two fall off the end of the function
UnknownProvider(st) ==
  IF impl = "part_000" THEN Thrown(st, "ResolutionError", "Unknown provider type")
  ELSE Returned(st, Undefined)

\* typeof instance?.onInit === "function"
HasOnInit(st, instance) ==
  instance.t = "object" /\ Classes[st.heap[instance.id].cls].onInit # "none"

RECURSIVE resolve(_, _, _, _, _)
RECURSIVE resolveDeps(_, _, _, _, _, _)
RECURSIVE instantiate(_, _, _, _, _)
RECURSIVE injectProperties(_, _, _, _, _, _)

\* deps.map((dep) => this.resolve(dep, stack)): the arguments, in order
resolveDeps(st, k, deps, stack, depth, args) ==
  IF Len(deps) = 0 THEN [st |-> st, ok |-> TRUE, val |-> Undefined, err |-> "",
                         msg |-> "", args |-> args]
  ELSE LET r == resolve(st, k, Head(deps), stack, depth)
       IN IF ~r.ok THEN [st |-> r.st, ok |-> FALSE, val |-> Undefined, err |-> r.err,
                         msg |-> r.msg, args |-> args]
          ELSE resolveDeps(r.st, k, Tail(deps), stack, depth, Append(args, r.val))

instantiate(st, k, provider, stack, depth) ==
  LET variant == Variant(provider)
      deps == IF variant = "class" THEN Classes[provider.useClass].inject
              ELSE provider.deps
  IN CASE variant = "value" -> Returned(st, provider.useValue)
       [] variant = "" -> UnknownProvider(st)
       [] OTHER ->
            LET a == resolveDeps(st, k, deps, stack, depth, <<>>)
            IN IF ~a.ok THEN Thrown(a.st, a.err, a.msg)
               ELSE IF variant = "class"
                    THEN Returned(Construct(a.st, provider.useClass, a.args),
                                  Ref(Len(a.st.heap) + 1))
                    ELSE LET c == CallFactory(a.st, provider.useFactory, a.args)
                         IN Returned(c.st, c.val)

\* the loop of applyPropertyInjections over the declarations of the class
injectProperties(st, k, instance, list, depth, f) ==
  IF Len(list) = 0 THEN Returned(st, instance)
  ELSE LET r == resolve(st, k, Head(list).token, <<>>, depth)
       IN IF ~r.ok THEN r
          ELSE LET st1 == [r.st EXCEPT !.heap[instance.id].fields[Head(list).key] = r.val]
               IN injectProperties(
                    Log(st1, Event("set", f, Head(list).token, r.val, Head(list).key)),
                    k, instance, Tail(list), depth, f)

applyPropertyInjections(st, k, instance, depth, f) ==
  IF instance.t # "object" THEN Returned(st, instance)
  ELSE injectProperties(st, k, instance, Classes[st.heap[instance.id].cls].props, depth, f)

\* a resolve that never calls onInit
callOnInitSkipped(st, instance, f) == Returned(st, instance)

\* the onInit call of resolve
callOnInit(st, instance, f) ==
  IF ~HasOnInit(st, instance) THEN Returned(st, instance)
  ELSE LET st1 == Log([st EXCEPT !.heap[instance.id].inits = @ + 1],
                      Event("init", f, NoToken, instance, ""))
       IN IF Classes[st.heap[instance.id].cls].onInit = "throws"
          THEN Thrown(st1, "Error", "onInit failed")
          ELSE Returned(st1, instance)

\* a resolve that stores the instance in the cache of the parent container
storeAndReturnInParent(st, k, provider, scope, instance, f) ==
  LET c == IF parent[k] # 0 THEN parent[k] ELSE k
      st1 == IF scope = Singleton /\ impl # "di"
             THEN Log([st EXCEPT !.singletons[c][provider.token] = instance],
                      Event("store", f, provider.token, instance, ""))
             ELSE st
  IN Returned(Log(st1, Event("return", f, provider.token, instance, "")), instance)

\* singletons.set(provider.token, instance) for a Singleton and the return
storeAndReturn(st, k, provider, scope, instance, f) ==
  LET st1 == IF StoresSingleton(scope)
             THEN Log([st EXCEPT !.singletons[k][provider.token] = instance],
                      Event("store", f, provider.token, instance, ""))
             ELSE st
  IN Returned(Log(st1, Event("return", f, provider.token, instance, "")), instance)

\* a frame that rethrows the error of a nested frame as a ResolutionError
ThrowWrapped(f, token, r) ==
  IF r.st.frames > f
  THEN Thrown(Log(r.st, Event("throw", f, token, Undefined, "ResolutionError")),
              "ResolutionError", r.msg)
  ELSE Thrown(Log(r.st, Event("throw", f, token, Undefined, r.err)), r.err, r.msg)

\* a frame that throws: the error passes through every caller unchanged
Throw(f, token, r) ==
  Thrown(Log(r.st, Event("throw", f, token, Undefined, r.err)), r.err, r.msg)

\* Container.resolve(token, _stack) of container k, depth frames deep
resolve(st, k, token, stack, depth) ==
  LET f == st.frames + 1
      st0 == LogStack(Log([st EXCEPT !.frames = f],
                          Event("enter", f, token, Undefined,
                                IF Len(stack) = 0 THEN "fresh" ELSE "")),
                      f, stack)
      provider == getProvider(k, token)
      scope == EffectiveScope(provider)
  IN IF depth > MaxDepth
     THEN Throw(f, token,
                Thrown(st0, "RangeError", "Maximum call stack size exceeded"))
     ELSE IF Includes(stack, token)
     THEN Throw(f, token,
                Thrown(st0, "CircularDependencyError",
                       "Circular dependency detected: " \o PathString(stack, token)))
     ELSE IF provider = NoProvider
     THEN Throw(f, token,
                Thrown(st0, "ProviderNotFoundError",
                       "No provider for token: " \o tokenToString(token)))
     ELSE IF scope = Singleton /\ SingletonsHas(st0.singletons[k], provider.token)
     THEN LET cached == st0.singletons[k][CacheReadKey(provider, token)]
          IN Returned(Log(Log(st0, Event("hit", f, token, cached, "")),
                          Event("return", f, token, cached, "")), cached)
     ELSE LET r1 == instantiate(st0, k, provider, ChildStack(stack, token), depth + 1)
          IN IF ~r1.ok THEN Throw(f, token, r1)
             ELSE LET st1 == Log(r1.st, Event("new", f, token, r1.val, ""))
                      r2 == applyPropertyInjections(st1, k, r1.val, depth + 1, f)
                  IN IF ~r2.ok THEN Throw(f, token, r2)
                     ELSE LET r3 == callOnInit(r2.st, r1.val, f)
                          IN IF ~r3.ok THEN Throw(f, token, r3)
                             ELSE storeAndReturn(r3.st, k, provider, scope, r1.val, f)

(***************************************************************************)
(* Container.register(...providers): setProvider on each in turn.  A       *)
(* provider without a token throws; the providers before it stay in.       *)
(***************************************************************************)
\* a register that never looks at the token
MissingTokenIgnored(p) == FALSE

\* !p || !p.token
MissingToken(p) == p = NoProvider \/ p.token = NoToken

\* a setProvider that also wants exactly one payload
setProviderValidatingShape(table, p) ==
  IF \/ MissingToken(p)
     \/ ~(isClassProvider(p) \/ isValueProvider(p) \/ isFactoryProvider(p))
     \/ (isClassProvider(p) /\ isValueProvider(p))
     \/ (isClassProvider(p) /\ isFactoryProvider(p))
     \/ (isValueProvider(p) /\ isFactoryProvider(p))
  THEN [table |-> table, ok |-> FALSE, err |-> "ResolutionError",
        msg |-> "Invalid provider"]
  ELSE [table |-> [table EXCEPT ![p.token] = p], ok |-> TRUE, err |-> "", msg |-> ""]

\* setProvider on the provider table of one container
setProvider(table, p) ==
  IF MissingToken(p)
  THEN [table |-> table, ok |-> FALSE, err |-> "ResolutionError",
        msg |-> "Invalid provider: missing token"]
  ELSE [table |-> [table EXCEPT ![p.token] = p], ok |-> TRUE, err |-> "", msg |-> ""]

RECURSIVE register(_, _)
register(table, ps) ==
  IF Len(ps) = 0 THEN [table |-> table, ok |-> TRUE, err |-> "", msg |-> ""]
  ELSE LET r == setProvider(table, Head(ps))
       IN IF ~r.ok THEN r ELSE register(r.table, Tail(ps))

(***************************************************************************)
(* The argument lists the client passes to register.                       *)
(***************************************************************************)
RegisterArgs ==
  { <<ClassProvider(TA, "Svc", NoScope), ClassProvider(TB, "Leaf", Singleton)>>,
    <<ClassProvider(TB, "Back", Singleton)>>,
    <<ClassProvider(TA, "Prop", Transient)>>,
    <<ClassProvider(TB, "Leaf", Transient)>>,
    <<ClassProvider(TB, "Bad", NoScope)>>,
    <<ValueProvider(TC, Ref(SharedId), Transient)>>,
    <<ValueProvider(TC, Ref(SharedId), NoScope)>>,
    <<FactoryProvider(TC, "mk", <<TB>>, Transient)>>,
    <<FactoryProvider(TC, "shared", <<>>, Transient)>>,
    <<Provider(TC, NoClass, Undefined, NoFactory, <<>>, NoScope)>>,
    <<Provider(TC, NoClass, Null, "mk", <<>>, Singleton)>>,
    <<ClassProvider(TC, "Leaf", NoScope), ClassProvider(NoToken, "Leaf", NoScope),
      ClassProvider(TB, "Leaf", NoScope)>>,
    <<ClassProvider(TA, "Top", NoScope), ClassProvider(TB, "Mid", Transient),
      FactoryProvider(TC, "mk", <<TD>>, Transient), ClassProvider(TD, "Leaf", Transient)>> }

(***************************************************************************)
(* ContainerModule.  A loader is a callback of the client program:         *)
(* (c) => c.register(...ps), or one that throws an error of its own.       *)
(***************************************************************************)
Loader(ps, err) == [ps |-> ps, err |-> err]

\* fn(container)
CallLoader(table, fn) ==
  IF fn.err # ""
  THEN [table |-> table, ok |-> FALSE, err |-> fn.err, msg |-> "loader failed"]
  ELSE register(table, fn.ps)

\* this.loaders.forEach((fn) => fn(container)): a throw ends the loop
RECURSIVE forEach(_, _)
forEach(table, loaders) ==
  IF Len(loaders) = 0 THEN [table |-> table, ok |-> TRUE, err |-> "", msg |-> ""]
  ELSE LET r == CallLoader(table, Head(loaders))
       IN IF ~r.ok THEN r ELSE forEach(r.table, Tail(loaders))

\* a load that runs the loaders last to first
loadInReverse(table, loaders) ==
  forEach(table, [i \in 1..Len(loaders) |-> loaders[Len(loaders) + 1 - i]])

\* a load that undoes the registrations when a loader throws
loadWithRollback(table, loaders) ==
  LET r == forEach(table, loaders)
  IN IF r.ok THEN r ELSE [r EXCEPT !.table = table]

\* ContainerModule.load(container), on the provider table of the container
load(table, loaders) == forEach(table, loaders)

\* the modules of the client program
Modules ==
  { <<Loader(<<ClassProvider(TC, "Leaf", Transient)>>, ""),
      Loader(<<ClassProvider(TD, "Leaf", Transient)>>, ""),
      Loader(<<ValueProvider(TC, Ref(SharedId), Transient)>>, "")>>,
    <<Loader(<<ClassProvider(TD, "Leaf", Transient)>>, ""),
      Loader(<<>>, "Error"),
      Loader(<<ClassProvider(TC, "Leaf", Transient)>>, "")>>,
    <<Loader(<<ClassProvider(TB, "Leaf", Transient)>>, ""),
      Loader(<<ClassProvider(TC, "Leaf", Transient), ClassProvider(NoToken, "Leaf", NoScope),
               ClassProvider(TD, "Leaf", Transient)>>, ""),
      Loader(<<ClassProvider(TD, "Leaf", Transient)>>, "")>> }

(***************************************************************************)
(* The record of the last call: the operation, its container and token,    *)
(* the providers passed to register (the loaders of the module, for load), *)
(* whether the call returned, the error                                    *)
(* kind and message, the value returned,                                   *)
(* the effective scope of the provider found for the token, what resolve   *)
(* returned for (k, tok) before this call, and the events of the call.     *)
(***************************************************************************)
Call(op, k, tok, ps, ok, err, msg, val, scope, prior, log) ==
  [op |-> op, k |-> k, tok |-> tok, ps |-> ps, ok |-> ok, err |-> err, msg |-> msg,
   val |-> val, scope |-> scope, prior |-> prior, log |-> log]

Containers == 1..Len(parent)

\* the keys a provider table can hold: setProvider keeps NoToken out
TableKeys == Tokens \cup {NoToken}
EmptyTable == [t \in TableKeys |-> NoProvider]
EmptyCache == [t \in Tokens |-> Absent]
EmptyReturned == [t \in Tokens |-> {}]

\* the objects the frames of a resolve call on k built (with new or in a
\* factory) for tokens of effective scope Singleton: (token, object) pairs
Built(k, log) ==
  {<<log[i].tok, log[i].v>> : i \in
     {j \in 1..Len(log) :
        /\ log[j].e = "new"
        /\ log[j].v.t = "object"
        /\ log[j].v.id > Len(heap)
        /\ EffectiveScope(getProvider(k, log[j].tok)) = Singleton}}

Init ==
  /\ impl \in Impls
  /\ parent = <<0>>
  /\ providers = <<EmptyTable>>
  /\ singletons = <<EmptyCache>>
  /\ heap = InitialHeap
  /\ registers = 0
  /\ resolves = 0
  /\ returned = <<EmptyReturned>>
  /\ constructed = <<EmptyReturned>>
  /\ last = Call("new", 1, NoToken, <<>>, TRUE, "", "", Undefined, NoScope, {}, <<>>)

\* k.register(...ps)
Register(k, ps) ==
  /\ registers < MaxRegisters
  /\ LET r == register(providers[k], ps)
     IN /\ providers' = [providers EXCEPT ![k] = r.table]
        /\ last' = Call("register", k, NoToken, ps, r.ok, r.err, r.msg, Undefined,
                        NoScope, {}, <<>>)
  /\ registers' = registers + 1
  /\ UNCHANGED <<impl, parent, singletons, heap, resolves, returned, constructed>>

\* new ContainerModule(loaders).load(k)
Load(k, loaders) ==
  /\ registers < MaxRegisters
  /\ LET r == load(providers[k], loaders)
     IN /\ providers' = [providers EXCEPT ![k] = r.table]
        /\ last' = Call("load", k, NoToken, loaders, r.ok, r.err, r.msg, Undefined,
                        NoScope, {}, <<>>)
  /\ registers' = registers + 1
  /\ UNCHANGED <<impl, parent, singletons, heap, resolves, returned, constructed>>

\* k.createChild()
CreateChild(k) ==
  /\ Len(parent) < MaxContainers
  /\ parent' = Append(parent, k)
  /\ providers' = Append(providers, EmptyTable)
  /\ singletons' = Append(singletons, EmptyCache)
  /\ returned' = Append(returned, EmptyReturned)
  /\ constructed' = Append(constructed, EmptyReturned)
  /\ last' = Call("createChild", k, NoToken, <<>>, TRUE, "", "", Undefined, NoScope, {}, <<>>)
  /\ UNCHANGED <<impl, heap, registers, resolves>>

\* k.resolve(token), the stack left to its default []
Resolve(k, token) ==
  /\ resolves < MaxResolves
  /\ resolves' = resolves + 1
  /\ LET st == [singletons |-> singletons, heap |-> heap, log |-> <<>>, frames |-> 0]
         r == resolve(st, k, token, <<>>, 1)
         scope == IF getProvider(k, token) = NoProvider THEN NoScope
                  ELSE EffectiveScope(getProvider(k, token))
     IN /\ singletons' = r.st.singletons
        /\ heap' = r.st.heap
        /\ returned' = IF r.ok
                       THEN [returned EXCEPT ![k][token] =
                               @ \cup {[scope |-> scope,
                                        variant |-> Variant(getProvider(k, token)),
                                        val |-> r.val]}]
                       ELSE returned
        /\ constructed' = [constructed EXCEPT ![k] =
                             [t \in Tokens |->
                                @[t] \cup {b[2] : b \in {c \in Built(k, r.st.log) : c[1] = t}}]]
        /\ last' = Call("resolve", k, token, <<>>, r.ok, r.err, r.msg, r.val, scope,
                        returned[k][token], r.st.log)
  /\ UNCHANGED <<impl, parent, providers, registers>>

Next ==
  \/ \E k \in Containers, ps \in RegisterArgs : Register(k, ps)
  \/ \E k \in Containers, loaders \in Modules : Load(k, loaders)
  \/ \E k \in Containers : CreateChild(k)
  \/ \E k \in Containers, token \in Requested : Resolve(k, token)

Spec == Init /\ [][Next]_vars


(***************************************************************************)
(* What the claims speak of.                                               *)
(***************************************************************************)
ResolveReturned == last.op = "resolve" /\ last.ok
ResolveThrew == last.op = "resolve" /\ ~last.ok

\* the events of frame f of the last call, and whether one of kind e is there
FrameHas(f, e) == \E i \in 1..Len(last.log) : last.log[i].f = f /\ last.log[i].e = e
\* the last call returned a cached singleton
CacheHit == ResolveReturned /\ FrameHas(1, "hit")

\* the container k and its ancestors, nearest first
RECURSIVE Chain(_)
Chain(k) == IF parent[k] = 0 THEN <<k>> ELSE <<k>> \o Chain(parent[k])

\* the records of returned[k][t] made under a Singleton provider
SingletonRecords(k, t) == {r \in returned[k][t] : r.scope = Singleton}

(***************************************************************************)
(* C1 -- Singleton stability: for a token whose provider has Singleton     *)
(* scope (declared or defaulted), any two successful resolve calls on the  *)
(* same container return the identical instance.                           *)
(***************************************************************************)
SingletonStability ==
  \A k \in Containers, t \in Tokens :
    \A r1, r2 \in SingletonRecords(k, t) : r1.val = r2.val
\* the provider the last resolve call found for its token (resolve leaves
\* the provider tables as they are)
LastProvider == getProvider(last.k, last.tok)

\* the same, of the copies of the container that store their singletons
SingletonStabilityWhereStored == impl # "di" => SingletonStability

(***************************************************************************)
(* C2 -- Transient freshness, as claimed: for a token whose provider has   *)
(* Transient scope, whatever the variant, a resolve call returns an        *)
(* instance distinct from the one every earlier Transient resolve of that  *)
(* token on the same container returned.                                   *)
(***************************************************************************)
TransientFreshness ==
  (ResolveReturned /\ LastProvider.scope = Transient)
    => \A r \in last.prior : r.scope = Transient => r.val # last.val

(***************************************************************************)
(* C2, amended -- for a token whose provider is a Transient class          *)
(* provider, a resolve call returns an instance distinct from everything   *)
(* resolve returned for that token on that container before.               *)
(***************************************************************************)
TransientClassFreshness ==
  (ResolveReturned /\ LastProvider.scope = Transient
     /\ Variant(LastProvider) = "class")
    => \A r \in last.prior : r.val # last.val

\* a second resolve of a Transient class provider has returned
TransientClassResolvedAgain ==
  /\ ResolveReturned
  /\ LastProvider.scope = Transient
  /\ Variant(LastProvider) = "class"
  /\ \E r \in last.prior : r.scope = Transient /\ r.variant = "class"

(***************************************************************************)
(* C3 -- Child isolation: for a token only ever resolved under Singleton   *)
(* class providers, the instances a child container returns are never the  *)
(* ones its parent returns, and all the instances the child returns are    *)
(* one and the same.                                                       *)
(***************************************************************************)
OnlySingletonClass(records) ==
  \A r \in records : r.scope = Singleton /\ r.variant = "class"

ChildIsolation ==
  \A c \in Containers, t \in Tokens :
    (parent[c] # 0 /\ OnlySingletonClass(returned[c][t] \cup returned[parent[c]][t]))
      => /\ \A r1 \in returned[parent[c]][t], r2 \in returned[c][t] : r1.val # r2.val
         /\ \A r2, r3 \in returned[c][t] : r2.val = r3.val

\* the same, of the copies of the container that store their singletons
ChildIsolationWhereStored == impl # "di" => ChildIsolation

(***************************************************************************)
(* C4 -- Provider delegation is upward only: resolve(T) on K throws        *)
(* ProviderNotFoundError from its own frame exactly when neither K nor an  *)
(* ancestor of K has T in its table, whatever the descendants hold; and    *)
(* when it builds from a class provider, the class is that of the nearest  *)
(* table holding T.                                                        *)
(***************************************************************************)
\* the containers of the chain of k that hold token in their own table
Owners(k, token) ==
  {i \in 1..Len(Chain(k)) : providers[Chain(k)[i]][token] # NoProvider}
Nearest(k, token) ==
  Chain(k)[CHOOSE i \in Owners(k, token) : \A j \in Owners(k, token) : i <= j]

\* the first frame of the last call threw ProviderNotFoundError itself
NotFoundAtTop ==
  /\ ResolveThrew
  /\ last.err = "ProviderNotFoundError"
  /\ last.msg = "No provider for token: " \o tokenToString(last.tok)
  /\ Len(last.log) = 2

\* the value frame 1 of the last call obtained from instantiate
BuiltAtTop(v) ==
  \E i \in 1..Len(last.log) :
    last.log[i].f = 1 /\ last.log[i].e = "new" /\ last.log[i].v = v

ProviderDelegation ==
  last.op = "resolve" =>
    /\ (Owners(last.k, last.tok) = {}) <=> NotFoundAtTop
    /\ \A i \in 1..Len(heap) :
         (/\ BuiltAtTop(Ref(i))
          /\ isClassProvider(providers[Nearest(last.k, last.tok)][last.tok]))
           => heap[i].cls = providers[Nearest(last.k, last.tok)][last.tok].useClass

\* a child resolved a token only its parent registers
InheritedLookup ==
  /\ ResolveReturned
  /\ parent[last.k] # 0
  /\ providers[last.k][last.tok] = NoProvider
  /\ providers[parent[last.k]][last.tok] # NoProvider

\* a parent failed to resolve a token only its child registers
NoDownwardLookup ==
  /\ NotFoundAtTop
  /\ \E c \in Containers : parent[c] = last.k /\ providers[c][last.tok] # NoProvider

\* a child built from its own provider although its parent holds another
NearestWins ==
  /\ ResolveReturned
  /\ parent[last.k] # 0
  /\ isClassProvider(providers[last.k][last.tok])
  /\ isClassProvider(providers[parent[last.k]][last.tok])
  /\ providers[last.k][last.tok].useClass # providers[parent[last.k]][last.tok].useClass
  /\ \E i \in 1..Len(heap) : BuiltAtTop(Ref(i))

(***************************************************************************)
(* C5 -- Cycle detection: when the chain of first constructor (or factory) *)
(* dependencies from the requested token runs into a token already on it   *)
(* and no Singleton on the chain is cached in the resolving container,     *)
(* resolve fails with CircularDependencyError and reports that chain, from *)
(* the requested token to the revisited one; and whenever resolve fails    *)
(* with CircularDependencyError, the chain reported is the stack of the    *)
(* open frames in visiting order, ending with a token already on it.       *)
(***************************************************************************)
\* the dependencies instantiate resolves for a provider
DepsOf(p) ==
  IF p = NoProvider THEN <<>>
  ELSE IF isClassProvider(p) THEN Classes[p.useClass].inject
  ELSE IF isFactoryProvider(p) /\ ~(impl = "test" /\ isValueProvider(p)) THEN p.deps
  ELSE <<>>

\* from token along first dependencies: the path up to and including the
\* first revisited token, <<>> when the walk ends without a revisit
RECURSIVE FirstDepWalk(_, _, _)
FirstDepWalk(k, token, path) ==
  IF Includes(path, token) THEN Append(path, token)
  ELSE IF Len(DepsOf(getProvider(k, token))) = 0 THEN <<>>
  ELSE FirstDepWalk(k, Head(DepsOf(getProvider(k, token))), Append(path, token))

CachedSingleton(k, token) ==
  /\ getProvider(k, token) # NoProvider
  /\ EffectiveScope(getProvider(k, token)) = Singleton
  /\ singletons[k][token] # Absent

Labels(path) == [i \in 1..Len(path) |-> tokenToString(path[i])]
CircularMessage(path) == "Circular dependency detected: " \o Join(Labels(path))

\* the index of the event at which the last call first threw
FirstThrow == CHOOSE i \in 1..Len(last.log) :
                /\ last.log[i].e = "throw"
                /\ \A j \in 1..(i - 1) : last.log[j].e # "throw"
\* frame f is open just before event i: entered, neither returned nor thrown
OpenBefore(f, i) ==
  /\ \E j \in 1..(i - 1) : last.log[j].f = f /\ last.log[j].e = "enter"
  /\ \A j \in 1..(i - 1) : last.log[j].f = f => last.log[j].e \notin {"return", "throw"}
EnterOf(f) == CHOOSE j \in 1..Len(last.log) : last.log[j].f = f /\ last.log[j].e = "enter"
\* the frames open at the first throw that share the thrower's stack: those
\* from the innermost frame entered with the empty stack on
StackFrames ==
  LET open == {f \in 1..last.log[FirstThrow].f : OpenBefore(f, FirstThrow)}
      fresh == {f \in open : last.log[EnterOf(f)].key = "fresh"}
      base == CHOOSE f \in fresh : \A g \in fresh : g <= f
  IN {f \in open : f >= base}
RECURSIVE TokensOf(_)
TokensOf(frames) ==
  IF frames = {} THEN <<>>
  ELSE LET f == CHOOSE x \in frames : \A y \in frames : x <= y
       IN <<last.log[EnterOf(f)].tok>> \o TokensOf(frames \ {f})

RegisterCalled == last.op = "register"
LacksToken(p) == p.token = NoToken
SomeTokenMissing == \E i \in 1..Len(last.ps) : LacksToken(last.ps[i])

MissingTokenRejected ==
  /\ (RegisterCalled /\ SomeTokenMissing)
       => /\ ~last.ok
          /\ last.err = "ResolutionError"
          /\ last.msg = "Invalid provider: missing token"
  /\ \A k \in Containers :
       /\ providers[k][NoToken] = NoProvider
       /\ \A t \in Tokens : providers[k][t] # NoProvider => providers[k][t].token = t

\* a register call was handed a provider without a token
TokenlessProviderRegistered == RegisterCalled /\ SomeTokenMissing

(***************************************************************************)
(* C7 -- as claimed: register accepts a provider only if it has a token    *)
(* and exactly one of useClass, useValue (not undefined) and useFactory,   *)
(* so a register call returns exactly when all its providers are of that   *)
(* shape, and every provider stored in a table is.                         *)
(***************************************************************************)
Payloads(p) ==
  (IF isClassProvider(p) THEN {"class"} ELSE {})
    \cup (IF isValueProvider(p) THEN {"value"} ELSE {})
    \cup (IF isFactoryProvider(p) THEN {"factory"} ELSE {})
WellShaped(p) == ~LacksToken(p) /\ Cardinality(Payloads(p)) = 1

RegisterValidatesShape ==
  /\ RegisterCalled => (last.ok <=> \A i \in 1..Len(last.ps) : WellShaped(last.ps[i]))
  /\ \A k \in Containers, t \in Tokens :
       providers[k][t] # NoProvider => WellShaped(providers[k][t])

(***************************************************************************)
(* C7, amended -- register validates the token alone: a register call      *)
(* returns exactly when every provider it is given has a token, and each   *)
(* provider ahead of the first one without a token is in the table,        *)
(* whatever payloads it carries, unless a later one of the call replaced   *)
(* it.                                                                     *)
(***************************************************************************)
\* the providers of the last register call that setProvider reached and kept
Accepted ==
  {i \in 1..Len(last.ps) : \A j \in 1..i : ~LacksToken(last.ps[j])}

RegisterChecksTokenOnly ==
  RegisterCalled =>
    /\ last.ok <=> ~SomeTokenMissing
    /\ \A i \in Accepted :
         (\A j \in Accepted : j > i => last.ps[j].token # last.ps[i].token)
           => providers[last.k][last.ps[i].token] = last.ps[i]

\* register returned after storing a provider with no payload or with two
ShapelessProviderStored ==
  /\ RegisterCalled
  /\ last.ok
  /\ \E i \in 1..Len(last.ps) :
       /\ ~WellShaped(last.ps[i])
       /\ providers[last.k][last.ps[i].token] = last.ps[i]

(***************************************************************************)
(* C8 -- Resolving a token whose provider has none of useClass, useFactory *)
(* and useValue, and for which no instance is cached yet, fails with       *)
(* ResolutionError ("Unknown provider type") and stores nothing.           *)
(***************************************************************************)
UnknownProviderRejected ==
  (/\ last.op = "resolve"
   /\ LastProvider # NoProvider
   /\ Payloads(LastProvider) = {}
   /\ ~FrameHas(1, "hit"))
    => /\ ResolveThrew
       /\ last.err = "ResolutionError"
       /\ last.msg = "Unknown provider type"
       /\ ~FrameHas(1, "store")

\* the same, of the one copy whose instantiate ends with a throw
UnknownProviderRejectedInPart000 == impl = "part_000" => UnknownProviderRejected

(***************************************************************************)
(* C9 -- Property injection: a frame of resolve that builds an instance of *)
(* a class with @Inject declarations and returns has, for each declared    *)
(* (field, token), assigned the field once the instance was built and      *)
(* before onInit ran; the value assigned is what a resolve of the token    *)
(* on the same container, with an empty stack, has just returned, and for  *)
(* a Singleton token it is the instance the container's cache holds, the   *)
(* one a direct resolve returns.                                           *)
(***************************************************************************)
Frames == {last.log[i].f : i \in 1..Len(last.log)}
EventsOf(f, e) == {i \in 1..Len(last.log) : last.log[i].f = f /\ last.log[i].e = e}
\* the instance frame f obtained from instantiate
NewOf(f) == last.log[CHOOSE i \in EventsOf(f, "new") : TRUE]
PropsOf(v) == IF v.t = "object" THEN Classes[heap[v.id].cls].props ELSE <<>>

\* event i assigns the value a resolve of token, entered with an empty stack
\* by frame f, returned in the event just before
AssignsResolved(i, f, decl) ==
  /\ last.log[i].key = decl.key
  /\ last.log[i].tok = decl.token
  /\ i > 1
  /\ last.log[i - 1].e = "return"
  /\ last.log[i - 1].v = last.log[i].v
  /\ last.log[EnterOf(last.log[i - 1].f)].tok = decl.token
  /\ last.log[EnterOf(last.log[i - 1].f)].key = "fresh"
  /\ last.log[i - 1].f > f

InjectedInFrame(f) ==
  LET v == NewOf(f).v
  IN \A n \in 1..Len(PropsOf(v)) :
       LET decl == PropsOf(v)[n]
       IN \E i \in EventsOf(f, "set") :
            /\ AssignsResolved(i, f, decl)
            /\ \A j \in EventsOf(f, "new") : j < i
            /\ \A j \in EventsOf(f, "init") : i < j
            /\ heap[v.id].fields[decl.key] = last.log[i].v
            /\ (/\ getProvider(last.k, decl.token) # NoProvider
                /\ EffectiveScope(getProvider(last.k, decl.token)) = Singleton)
                 => singletons[last.k][decl.token] = last.log[i].v

PropertyInjection ==
  last.op = "resolve" =>
    \A f \in Frames :
      (EventsOf(f, "new") # {} /\ EventsOf(f, "return") # {}) => InjectedInFrame(f)

\* the same, of the copies of the container that store their singletons
PropertyInjectionWhereStored == impl # "di" => PropertyInjection

\* resolve returned a new instance whose injected field holds an object
FieldInjected ==
  /\ ResolveReturned
  /\ EventsOf(1, "new") # {}
  /\ Len(PropsOf(last.val)) > 0
  /\ heap[last.val.id].fields[PropsOf(last.val)[1].key].t = "object"

(***************************************************************************)
(* C10 -- Initialization hook count per resolve: a frame of resolve that   *)
(* returns the cached singleton invokes no onInit; a frame that obtains an *)
(* instance with an onInit method and returns invokes it exactly once, on  *)
(* that instance, after the property assignments and before the cache      *)
(* store; no frame invokes onInit twice.                                   *)
(***************************************************************************)
HookOnceInFrame(f) ==
  /\ Cardinality(EventsOf(f, "init")) = 1
  /\ \A i \in EventsOf(f, "init") :
       /\ last.log[i].v = NewOf(f).v
       /\ \A j \in EventsOf(f, "new") \cup EventsOf(f, "set") : j < i
       /\ \A j \in EventsOf(f, "store") : i < j

InitHookCount ==
  last.op = "resolve" =>
    \A f \in Frames :
      /\ Cardinality(EventsOf(f, "init")) <= 1
      /\ EventsOf(f, "hit") # {} => EventsOf(f, "init") = {}
      /\ (/\ EventsOf(f, "new") # {}
          /\ EventsOf(f, "return") # {}
          /\ NewOf(f).v.t = "object"
          /\ Classes[heap[NewOf(f).v.id].cls].onInit # "none")
           => HookOnceInFrame(f)

\* resolve returned the cached instance of a class with onInit, invoked
\* once when an earlier resolve built it and not again
CachedHookNotRerun ==
  /\ CacheHit
  /\ last.val.t = "object"
  /\ heap[last.val.id].cls = "Svc"
  /\ heap[last.val.id].inits = 1

(***************************************************************************)
(* C11 -- Singleton construction count: over any sequence of resolve calls *)
(* on a container, those that fail included, at most one instance is ever  *)
(* constructed for a (container, token) pair whose provider has Singleton   *)
(* scope.                                                                  *)
(***************************************************************************)
SingletonConstructionCount ==
  \A k \in Containers, t \in Tokens : Cardinality(constructed[k][t]) <= 1

\* the same, of the copies of the container that store their singletons
SingletonConstructionCountWhereStored == impl # "di" => SingletonConstructionCount

\* in those copies no cache ever holds more than one of the instances built
\* for a Singleton token of a container: an instance beyond the first is
\* built only when a resolve built one and failed before storing it
SingletonRebuiltOnlyAfterFailure ==
  impl # "di" =>
    \A k \in Containers, t \in Tokens :
      Cardinality(constructed[k][t] \cap {singletons[j][u] : j \in Containers, u \in Tokens}) <= 1

(***************************************************************************)
(* What the claims about ContainerModule.load speak of.                    *)
(***************************************************************************)
LoadCalled == last.op = "load"

\* a loader that throws: by itself, or in register on a provider without a
\* token
LoaderThrows(fn) == fn.err # "" \/ \E i \in 1..Len(fn.ps) : LacksToken(fn.ps[i])
\* the providers a loader registers before it returns or throws
Registered(fn) ==
  IF fn.err # "" THEN <<>>
  ELSE SubSeq(fn.ps, 1,
              Cardinality({i \in 1..Len(fn.ps) : \A j \in 1..i : ~LacksToken(fn.ps[j])}))
\* the index of the first loader that throws, 0 when none does
FirstThrowing(loaders) ==
  IF \E n \in 1..Len(loaders) : LoaderThrows(loaders[n])
  THEN CHOOSE n \in 1..Len(loaders) :
         /\ LoaderThrows(loaders[n])
         /\ \A m \in 1..(n - 1) : ~LoaderThrows(loaders[m])
  ELSE 0
\* the providers of loaders[from..to], in the order of the list
RECURSIVE Flat(_, _, _)
Flat(loaders, from, to) ==
  IF from > to THEN <<>>
  ELSE Registered(loaders[from]) \o Flat(loaders, from + 1, to)
\* the last provider of the list ps for token t, NoProvider when none
LastFor(ps, t) ==
  IF \E i \in 1..Len(ps) : ps[i].token = t
  THEN ps[CHOOSE i \in 1..Len(ps) :
            ps[i].token = t /\ \A j \in (i + 1)..Len(ps) : ps[j].token # t]
  ELSE NoProvider
\* this step is a load call
LoadStep == last'.op = "load" /\ registers' = registers + 1

(***************************************************************************)
(* C12 -- Module composition: a load call whose loaders all return has run *)
(* them in list order against the given container: every token a loader    *)
(* registered is in that container's own table, a token several loaders    *)
(* registered holds the provider of the last of them, and no other token   *)
(* and no other container's table has changed.                             *)
(***************************************************************************)
ModuleComposition ==
  [][(LoadStep /\ last'.ok) =>
       LET ps == Flat(last'.ps, 1, Len(last'.ps))
       IN /\ \A i \in 1..Len(ps) :
               /\ providers'[last'.k][ps[i].token] # NoProvider
               /\ providers'[last'.k][ps[i].token] = LastFor(ps, ps[i].token)
          /\ \A t \in Tokens :
               LastFor(ps, t) = NoProvider => providers'[last'.k][t] = providers[last'.k][t]
          /\ \A j \in Containers : j # last'.k => providers'[j] = providers[j]]_vars

\* a module of three loaders, two of them registering the same token, has
\* been loaded, and the table holds the provider of the later one
LaterLoaderWon ==
  /\ LoadCalled
  /\ last.ok
  /\ Len(last.ps) = 3
  /\ \E m, n \in 1..Len(last.ps) :
       /\ m < n
       /\ Len(last.ps[m].ps) > 0
       /\ Len(last.ps[n].ps) > 0
       /\ last.ps[m].ps[1].token = last.ps[n].ps[1].token
       /\ last.ps[m].ps[1] # last.ps[n].ps[1]
       /\ providers[last.k][last.ps[n].ps[1].token] = last.ps[n].ps[1]

(***************************************************************************)
(* C13 -- No rollback on partial module failure: a load call fails exactly *)
(* when one of its loaders throws; then the table holds what the loaders   *)
(* before the first throwing one registered (and what that one registered  *)
(* before it threw), the loaders after it have not run, and the caller     *)
(* gets the error of that loader as it was thrown.                         *)
(***************************************************************************)
NoRollback ==
  [][LoadStep =>
       LET n == FirstThrowing(last'.ps)
       IN /\ last'.ok <=> n = 0
          /\ n # 0 =>
               LET ps == Flat(last'.ps, 1, n)
               IN /\ \A t \in Tokens :
                       providers'[last'.k][t] =
                         IF LastFor(ps, t) # NoProvider THEN LastFor(ps, t)
                         ELSE providers[last'.k][t]
                  /\ last'.err = IF last'.ps[n].err # "" THEN last'.ps[n].err
                                 ELSE "ResolutionError"
                  /\ last'.msg = IF last'.ps[n].err # "" THEN "loader failed"
                                 ELSE "Invalid provider: missing token"]_vars

\* a load failed in its second loader: the provider of the first loader is
\* in the table, a token only the third loader registers is not
LoadFailedHalfway ==
  /\ LoadCalled
  /\ ~last.ok
  /\ FirstThrowing(last.ps) = 2
  /\ Len(last.ps) = 3
  /\ providers[last.k][last.ps[1].ps[1].token] = last.ps[1].ps[1]
  /\ \E i \in 1..Len(last.ps[3].ps) :
       /\ LastFor(Flat(last.ps, 1, 2), last.ps[3].ps[i].token) = NoProvider
       /\ providers[last.k][last.ps[3].ps[i].token] = NoProvider

(***************************************************************************)
(* C14 -- The initialization hook of an instance is invoked once: over any *)
(* sequence of resolve calls on the containers of a hierarchy, no object   *)
(* resolve returned has had its onInit invoked more than one time in all.  *)
(***************************************************************************)
\* the values resolve has returned to the client program
EverReturned == {r.val : r \in UNION {returned[k][t] : k \in Containers, t \in Tokens}}

HookInvokedOnce ==
  \A v \in EverReturned : v.t = "object" => heap[v.id].inits <= 1

\* the same of the objects the container itself built and returned: each
\* was built in one frame, which is the only one to invoke its onInit
BuiltObjects == {Ref(i) : i \in (Len(InitialHeap) + 1)..Len(heap)}
HookInvokedOnceOnBuilt ==
  \A v \in EverReturned \cap BuiltObjects : heap[v.id].inits <= 1

(***************************************************************************)
(* What the claims about one resolve call and the state before it speak of.*)
(***************************************************************************)
\* this step is a resolve call (last' is its record)
ResolveStep == last'.op = "resolve" /\ resolves' = resolves + 1
\* the provider that call finds for its token, and its effective scope
StepProvider == getProvider(last'.k, last'.tok)
StepScope == IF StepProvider = NoProvider THEN NoScope ELSE EffectiveScope(StepProvider)
\* the kinds of the events of that call
StepEvents == {last'.log[i].e : i \in 1..Len(last'.log)}

(***************************************************************************)
(* C15 -- Cache check precedes dependency recursion: a resolve of a token  *)
(* of effective scope Singleton that the cache of the resolving container  *)
(* already holds returns the cached instance from its first frame: no      *)
(* dependency is resolved, nothing is built, no field is assigned, no      *)
(* onInit is invoked, and no cache changes -- whatever has become of the   *)
(* providers of its dependencies.                                          *)
(***************************************************************************)
CacheCheckFirst ==
  [][(/\ ResolveStep
      /\ StepScope = Singleton
      /\ singletons[last'.k][last'.tok] # Absent)
       => /\ last'.ok
          /\ last'.val = singletons[last'.k][last'.tok]
          /\ \A i \in 1..Len(last'.log) : last'.log[i].f = 1
          /\ StepEvents = {"enter", "hit", "return"}
          /\ singletons' = singletons
          /\ heap' = heap]_vars

\* a dependency of the provider p that resolve on k could not deliver now:
\* it has no provider, or is not cached and has a class whose onInit throws
Unresolvable(k, dep) ==
  \/ getProvider(k, dep) = NoProvider
  \/ /\ isClassProvider(getProvider(k, dep))
     /\ Classes[getProvider(k, dep).useClass].onInit = "throws"
     /\ singletons[k][dep] = Absent

\* resolve returned a cached singleton one of whose dependencies has become
\* unresolvable since
CachedDespiteBrokenDependency ==
  /\ CacheHit
  /\ \E i \in 1..Len(DepsOf(LastProvider)) : Unresolvable(last.k, DepsOf(LastProvider)[i])

(***************************************************************************)
(* C16 -- Failure aborts the dependent: once a frame of a resolve call     *)
(* throws (a dependency without provider, a cycle, a provider of no        *)
(* variant, a throwing onInit, a stack overflow), every frame open at that *)
(* moment throws in turn with the same error kind and does nothing else,   *)
(* the call fails with that error and returns no instance, and the cache   *)
(* of the resolving container holds for the token of each failed frame     *)
(* what it held before the call.                                           *)
(***************************************************************************)
FirstThrowIn(log) == CHOOSE i \in 1..Len(log) :
                       /\ log[i].e = "throw"
                       /\ \A j \in 1..(i - 1) : log[j].e # "throw"
\* the frames entered before event i that have neither returned nor thrown
OpenIn(log, i) ==
  {f \in {log[j].f : j \in 1..(i - 1)} :
     \A j \in 1..(i - 1) : log[j].f = f => log[j].e \notin {"return", "throw"}}

FailureAborts ==
  [][(ResolveStep /\ ~last'.ok) =>
       LET log == last'.log
           i0 == FirstThrowIn(log)
       IN /\ "throw" \in StepEvents
          /\ \A j \in i0..Len(log) : log[j].e = "throw" /\ log[j].key = last'.err
          /\ {log[j].f : j \in i0..Len(log)} = OpenIn(log, i0)
          /\ Len(log) - i0 + 1 = Cardinality(OpenIn(log, i0))
          /\ last'.val = Undefined
          /\ \A j \in i0..Len(log) :
               singletons'[last'.k][log[j].tok] = singletons[last'.k][log[j].tok]]_vars

\* the first frame of the last call did not throw of its own accord: a
\* nested frame threw first
NestedThrow == ResolveThrew /\ last.log[FirstThrow].f > 1

\* resolve of a Singleton token failed in a constructor or factory
\* dependency and left no instance of the token in the cache
FailedInDependency ==
  /\ NestedThrow
  /\ last.scope = Singleton
  /\ last.log[EnterOf(last.log[FirstThrow].f)].key # "fresh"
  /\ singletons[last.k][last.tok] = Absent

\* the same for a failure in the resolve of an injected property
FailedInPropertyInjection ==
  /\ NestedThrow
  /\ EventsOf(1, "new") # {}
  /\ singletons[last.k][last.tok] = Absent

\* the same for a failure of the onInit of the instance itself
FailedInHook ==
  /\ ResolveThrew
  /\ last.scope = Singleton
  /\ EventsOf(1, "init") # {}
  /\ singletons[last.k][last.tok] = Absent

(***************************************************************************)
(* C17 -- resolve frame condition: a resolve call on container K, whether  *)
(* it returns or throws, leaves every provider table and the hierarchy as  *)
(* they are and the singleton cache of every other container unchanged; in *)
(* the cache of K it changes no entry that was there, and it adds entries  *)
(* only for tokens of effective scope Singleton, each the instance a frame *)
(* of the call stored.                                                     *)
(***************************************************************************)
\* the call stored v for token t
StepStored(t, v) ==
  \E i \in 1..Len(last'.log) :
    last'.log[i].e = "store" /\ last'.log[i].tok = t /\ last'.log[i].v = v

ResolveFrameCondition ==
  [][ResolveStep =>
       /\ providers' = providers
       /\ parent' = parent
       /\ \A j \in Containers : j # last'.k => singletons'[j] = singletons[j]
       /\ \A t \in Tokens :
            singletons'[last'.k][t] # singletons[last'.k][t]
              => /\ singletons[last'.k][t] = Absent
                 /\ getProvider(last'.k, t) # NoProvider
                 /\ EffectiveScope(getProvider(last'.k, t)) = Singleton
                 /\ StepStored(t, singletons'[last'.k][t])]_vars

\* a child resolved a Singleton token only its parent registers: the
\* instance is in the cache of the child and not in that of the parent
StoredInResolvingContainer ==
  /\ ResolveReturned
  /\ parent[last.k] # 0
  /\ FrameHas(1, "store")
  /\ providers[last.k][last.tok] = NoProvider
  /\ providers[parent[last.k]][last.tok] # NoProvider
  /\ singletons[last.k][last.tok] = last.val
  /\ singletons[parent[last.k]][last.tok] # last.val

\* resolve of a Transient token returned and left the caches without it
TransientNotStored ==
  /\ ResolveReturned
  /\ last.scope = Transient
  /\ singletons[last.k][last.tok] = Absent

(***************************************************************************)
(* C18 -- Dependencies are resolved in the resolving container: in a       *)
(* resolve call on a child C for a token only an ancestor declares, each   *)
(* frame of a dependency (constructor, factory or property) takes its      *)
(* provider from the nearest table on the chain of C, so a provider of C   *)
(* shadows the ancestor's, and each dependency of effective scope          *)
(* Singleton that was resolved is in the cache of C and the instance built *)
(* for it is in no other cache.                                            *)
(***************************************************************************)
\* the last call is one of a child for a token only an ancestor declares
InheritedCall ==
  /\ last.op = "resolve"
  /\ parent[last.k] # 0
  /\ providers[last.k][last.tok] = NoProvider
  /\ Owners(last.k, last.tok) # {}

\* the token of frame f and the provider the chain of the resolving
\* container gives for it
TokenOf(f) == last.log[EnterOf(f)].tok
LookedUp(f) == providers[Nearest(last.k, TokenOf(f))][TokenOf(f)]

\* frame f built its instance from the provider looked up from last.k
BuiltFromResolver(f) ==
  (isClassProvider(LookedUp(f)) /\ NewOf(f).v.t = "object")
    => heap[NewOf(f).v.id].cls = LookedUp(f).useClass

\* the instance frame f returned for a Singleton token is cached in last.k,
\* and if the frame built it, nowhere else
CachedInResolver(f) ==
  EffectiveScope(LookedUp(f)) = Singleton
    => /\ \A i \in EventsOf(f, "return") : singletons[last.k][TokenOf(f)] = last.log[i].v
       /\ (EventsOf(f, "new") # {} /\ isClassProvider(LookedUp(f)))
            => \A j \in Containers, t \in Tokens :
                 j # last.k => singletons[j][t] # NewOf(f).v

DependenciesInResolver ==
  InheritedCall =>
    \A f \in Frames :
      (f > 1 /\ Owners(last.k, TokenOf(f)) # {})
        => /\ EventsOf(f, "new") # {} => BuiltFromResolver(f)
           /\ EventsOf(f, "return") # {} => CachedInResolver(f)

\* the same, of the copies of the container that store their singletons
DependenciesInResolverWhereStored == impl # "di" => DependenciesInResolver

\* a child resolved a token of its parent whose dependency the child
\* registers differently from the parent: the child's provider was used
ShadowedDependency ==
  /\ InheritedCall
  /\ last.ok
  /\ \E f \in Frames :
       /\ f > 1
       /\ EventsOf(f, "new") # {}
       /\ isClassProvider(providers[last.k][TokenOf(f)])
       /\ isClassProvider(providers[parent[last.k]][TokenOf(f)])
       /\ providers[last.k][TokenOf(f)].useClass
            # providers[parent[last.k]][TokenOf(f)].useClass
       /\ heap[NewOf(f).v.id].cls = providers[last.k][TokenOf(f)].useClass

\* a child resolved a token of its parent and holds the Singleton dependency
\* in its own cache, the parent's cache being without it
DependencyCachedInChild ==
  /\ InheritedCall
  /\ last.ok
  /\ \E f \in Frames :
       /\ f > 1
       /\ EventsOf(f, "store") # {}
       /\ singletons[last.k][TokenOf(f)] = NewOf(f).v
       /\ singletons[parent[last.k]][TokenOf(f)] = Absent

(***************************************************************************)
(* C19 -- The resolution stack is passed by value: the stack a frame of    *)
(* resolve is called with is the tokens of the frames above it on its      *)
(* constructor/factory dependency chain, outermost first, whatever sibling *)
(* dependencies were resolved before it (and empty for the first frame and *)
(* for a frame applyPropertyInjections calls); a frame throws              *)
(* CircularDependencyError of its own accord only when its token is among  *)
(* those; and a diamond (A needs B and C, B and C each need D, D needs     *)
(* nothing) raises no CircularDependencyError.                             *)
(***************************************************************************)
\* the frame that called frame f (f > 1): the innermost one open then
CallerOf(f) ==
  CHOOSE g \in 1..(f - 1) :
    /\ OpenBefore(g, EnterOf(f))
    /\ \A h \in 1..(f - 1) : OpenBefore(h, EnterOf(f)) => h <= g
\* frame f was called by instantiate of its caller, not by
\* applyPropertyInjections: the caller had no instance yet
CalledByInstantiate(f) ==
  f > 1 /\ \A i \in EventsOf(CallerOf(f), "new") : i > EnterOf(f)
\* the tokens of the frames above f on its dependency chain
RECURSIVE Ancestors(_)
Ancestors(f) ==
  IF CalledByInstantiate(f) THEN Append(Ancestors(CallerOf(f)), TokenOf(CallerOf(f)))
  ELSE <<>>
\* the stack frame f was called with
RECURSIVE TokensAt(_)
TokensAt(indexes) ==
  IF indexes = {} THEN <<>>
  ELSE LET i == CHOOSE x \in indexes : \A y \in indexes : x <= y
       IN <<last.log[i].tok>> \o TokensAt(indexes \ {i})
StackOf(f) == TokensAt(EventsOf(f, "on"))

\* frame f threw CircularDependencyError before doing anything else
ThrewCircular(f) ==
  \E i \in EventsOf(f, "throw") :
    /\ last.log[i].key = "CircularDependencyError"
    /\ \A j \in 1..(i - 1) : last.log[j].f = f => last.log[j].e \in {"enter", "on"}
    /\ \A j \in EnterOf(f)..i : last.log[j].f = f

\* from token on k: token needs two different tokens, each of which needs
\* one and the same token, which needs nothing
Diamond(k, token) ==
  LET top == DepsOf(getProvider(k, token))
  IN /\ Len(top) = 2
     /\ top[1] # top[2]
     /\ token \notin {top[1], top[2]}
     /\ \A i \in 1..2 :
          /\ Len(DepsOf(getProvider(k, top[i]))) = 1
          /\ DepsOf(getProvider(k, top[i]))[1] = DepsOf(getProvider(k, top[1]))[1]
          /\ DepsOf(getProvider(k, top[i]))[1] \notin {token, top[1], top[2]}
          /\ Len(DepsOf(getProvider(k, DepsOf(getProvider(k, top[i]))[1]))) = 0

StackByValue ==
  last.op = "resolve" =>
    /\ \A f \in Frames :
         /\ StackOf(f) = Ancestors(f)
         /\ ThrewCircular(f) => Includes(Ancestors(f), TokenOf(f))
    /\ Diamond(last.k, last.tok) => last.err # "CircularDependencyError"

\* resolve(A) on a diamond returned a new A, having resolved D once under
\* B with the stack A, B and once under C with the stack A, C
DiamondResolved ==
  /\ ResolveReturned
  /\ Diamond(last.k, last.tok)
  /\ EventsOf(1, "new") # {}
  /\ \E f, g \in Frames :
       /\ f < g
       /\ TokenOf(f) = TD
       /\ TokenOf(g) = TD
       /\ StackOf(f) = <<TA, TB>>
       /\ StackOf(g) = <<TA, TC>>
       /\ EventsOf(f, "return") # {}
       /\ EventsOf(g, "return") # {}

(***************************************************************************)
(* C20 -- Property injection can close a dependency cycle: when the class  *)
(* registered for A declares an injected field for B and the class         *)
(* registered for B depends on A (by constructor or by injected field),    *)
(* resolve(A) returns an instance of A whose field holds an instance of    *)
(* the class of B.                                                         *)
(***************************************************************************)
PropTokens(cls) == {Classes[cls].props[n].token : n \in 1..Len(Classes[cls].props)}
InjectTokens(cls) == {Classes[cls].inject[n] : n \in 1..Len(Classes[cls].inject)}

\* declaration n of the class of token closes a cycle through its field
ClosesCycle(k, token, n) ==
  LET p == getProvider(k, token)
      q == getProvider(k, Classes[p.useClass].props[n].token)
  IN /\ isClassProvider(q)
     /\ token \in InjectTokens(q.useClass) \cup PropTokens(q.useClass)

PropertyCycleResolves ==
  (last.op = "resolve" /\ isClassProvider(LastProvider)) =>
    \A n \in 1..Len(Classes[LastProvider.useClass].props) :
      ClosesCycle(last.k, last.tok, n) =>
        LET decl == Classes[LastProvider.useClass].props[n]
        IN /\ last.ok
           /\ last.val.t = "object"
           /\ heap[last.val.id].cls = LastProvider.useClass
           /\ heap[last.val.id].fields[decl.key].t = "object"
           /\ heap[heap[last.val.id].fields[decl.key].id].cls
                = getProvider(last.k, decl.token).useClass

\* what happens instead while neither instance is cached: the frames nest
\* until the call stack overflows
PropertyCycleOverflows ==
  (last.op = "resolve" /\ isClassProvider(LastProvider)) =>
    \A n \in 1..Len(Classes[LastProvider.useClass].props) :
      (/\ ClosesCycle(last.k, last.tok, n)
       /\ ~FrameHas(1, "hit")
       /\ singletons[last.k][Classes[LastProvider.useClass].props[n].token] = Absent)
        => ResolveThrew /\ last.err = "RangeError"

(***************************************************************************)
(* What the claim about termination speaks of.  A resolve call that does   *)
(* not terminate is one whose frames nest without end, which the program   *)
(* ends with a RangeError (the call stack overflows).                      *)
(***************************************************************************)
\* the tokens with a provider on the chain of k
RegisteredTokens(k) == {t \in Tokens : Owners(k, t) # {}}
\* no class registered on the chain of k declares an injected property
NoPropertyInjection(k) ==
  \A t \in RegisteredTokens(k) :
    isClassProvider(getProvider(k, t)) => Len(Classes[getProvider(k, t).useClass].props) = 0
NoRepeat(stack) == \A i, j \in 1..Len(stack) : stack[i] = stack[j] => i = j
\* the stacks of the last call are without repeated token and no longer
\* than the number of registered tokens
StacksBounded ==
  \A f \in Frames :
    /\ NoRepeat(StackOf(f))
    /\ Len(StackOf(f)) <= Cardinality(RegisteredTokens(last.k))

FailedInOnInit ==
  /\ ResolveThrew
  /\ FirstThrow > 1
  /\ last.log[FirstThrow - 1].e = "init"
  /\ last.log[FirstThrow - 1].f = last.log[FirstThrow].f

CycleEndedWithoutOverflow ==
  /\ last.op = "resolve"
  /\ NoPropertyInjection(last.k)
  /\ ResolveThrew
  /\ last.err = "CircularDependencyError"

(***************************************************************************)
(* C22 -- register frame condition: a register call on container K,        *)
(* whether it returns or throws, leaves the singleton cache of every       *)
(* container, the objects, the hierarchy and the provider table of every   *)
(* other container unchanged; and a resolve of a token of effective scope  *)
(* Singleton returns what the cache of the resolving container holds for   *)
(* it, whichever provider is registered for the token by then.             *)
(***************************************************************************)
\* this step is a register call
RegisterStep == last'.op = "register" /\ registers' = registers + 1

RegisterFrameCondition ==
  [][/\ RegisterStep =>
          /\ singletons' = singletons
          /\ heap' = heap
          /\ parent' = parent
          /\ \A j \in Containers : j # last'.k => providers'[j] = providers[j]
     /\ (/\ ResolveStep
         /\ StepScope = Singleton
         /\ singletons[last'.k][last'.tok] # Absent)
          => /\ last'.ok
             /\ last'.val = singletons[last'.k][last'.tok]
             /\ singletons'[last'.k][last'.tok] = singletons[last'.k][last'.tok]]_vars

\* resolve returned the cached instance of a Singleton token that has since
\* been registered again with another class and Singleton scope: the
\* instance is of the class of the earlier provider
StaleSingletonReturned ==
  /\ CacheHit
  /\ last.val.t = "object"
  /\ isClassProvider(LastProvider)
  /\ providers[last.k][last.tok] = LastProvider
  /\ EffectiveScope(LastProvider) = Singleton
  /\ heap[last.val.id].cls # LastProvider.useClass
  /\ last.val \in constructed[last.k][last.tok]

====
